---- MODULE Spec2Model ----
(***************************************************************************)
(* Model of pyfarm.core.config: Configuration.split_version, directories, *)
(* files and load.  A Python string is a sequence of one-character        *)
(* strings, a path is such a string, a dict is a function.                *)
(***************************************************************************)
EXTENDS Integers, Sequences, FiniteSets, TLC

VARIABLES
    version,           \* Configuration.version: a string or None
    system_root,       \* Configuration.system_root: a path or None
    environment_root,  \* Configuration.environment_root: a path or None
    local_dir,         \* Configuration.local_dir: a path or None
    user_root,         \* the platform's user root; Configuration has no such field
    dirs,              \* filesystem: the directories that exist
    fcontent,          \* filesystem: regular file path -> parsed YAML document
    store,             \* the Configuration dict itself
    environ,           \* the `environment` argument of load()
    os_environ,        \* os.environ as read_env() sees it: name -> raw string
    op,                \* the last operation called and its arguments
    result,            \* what the last operation returned or raised
    readLog            \* the files load() opened, in order

vars == <<version, system_root, environment_root, local_dir, user_root,
          dirs, fcontent, store, environ, os_environ, op, result, readLog>>

config == <<version, system_root, environment_root, local_dir, user_root>>
filesystem == <<dirs, fcontent>>

\* ---------------------------------------------------------------- bounds
MaxVersionLen == 4
MaxComponents == 2
MaxFiles == 3
MaxEmptyDirs == 1

\* ---------------------------------------------------------------- strings
None == <<"None">>

SEP == <<".">>
OS_SEP == <<"/">>
VersionChars == {"1", "2", "."}

RECURSIVE StringsUpTo(_)
StringsUpTo(n) ==
    IF n = 0 THEN {<<>>}
    ELSE LET shorter == StringsUpTo(n - 1)
         IN  shorter \cup {Append(s, c) : s \in {t \in shorter : Len(t) = n - 1},
                                           c \in VersionChars}

StartsWith(s, prefix) ==
    /\ Len(prefix) <= Len(s)
    /\ SubSeq(s, 1, Len(prefix)) = prefix

EndsWith(s, suffix) ==
    /\ Len(suffix) <= Len(s)
    /\ SubSeq(s, Len(s) - Len(suffix) + 1, Len(s)) = suffix

\* str.split(sep) for a non-empty sep: cut at each occurrence, left to right
RECURSIVE SplitFrom(_, _, _)
SplitFrom(s, sep, cur) ==
    IF Len(s) < Len(sep) THEN <<cur \o s>>
    ELSE IF StartsWith(s, sep)
         THEN <<cur>> \o SplitFrom(SubSeq(s, Len(sep) + 1, Len(s)), sep, <<>>)
         ELSE SplitFrom(Tail(s), sep, Append(cur, Head(s)))

StrSplit(s, sep) == SplitFrom(s, sep, <<>>)

\* sep.join(parts)
RECURSIVE StrJoin(_, _)
StrJoin(sep, parts) ==
    IF Len(parts) = 0 THEN <<>>
    ELSE IF Len(parts) = 1 THEN parts[1]
    ELSE parts[1] \o sep \o StrJoin(sep, Tail(parts))

\* os.path.join(a, b) on a POSIX platform
PathJoin(a, b) ==
    IF StartsWith(b, OS_SEP) THEN b
    ELSE IF a = <<>> \/ EndsWith(a, OS_SEP) THEN a \o b
    ELSE a \o OS_SEP \o b

Ok(v) == [status |-> "ok", value |-> v]
Raise(e) == [status |-> e, value |-> <<>>]

\* ---------------------------------------------------------------- split_version
split_version(ver, sep) ==
    IF ver = None THEN Ok(<<>>)
    ELSE IF sep = <<>> THEN Raise("ValueError")
    ELSE LET split == StrSplit(ver, sep)
         IN  Ok([index \in 1..Len(split) |-> StrJoin(sep, SubSeq(split, 1, index))])

\* ---------------------------------------------------------------- class constants
FILE_EXTENSION == <<".", "y", "m", "l">>
LOCAL_DIRECTORY_NAME == <<"e", "t", "c">>
PARENT_APPLICATION_NAME == <<"p", "y", "f", "a", "r", "m">>

\* WINDOWS takes the root from os.environ["APPDATA"]; the model covers the
\* POSIX platforms and the undetermined one
Platforms == {"linux", "mac", "unknown"}

DEFAULT_CONFIG_ROOT(platform) ==
    IF platform = "linux" THEN PathJoin(OS_SEP, <<"e", "t", "c">>)
    ELSE IF platform = "mac" THEN PathJoin(OS_SEP, <<"L", "i", "b", "r", "a", "r", "y">>)
    ELSE None

\* the service every Configuration of the model is built for
service_name == <<"a", "g", "e", "n", "t">>

child_dir == PathJoin(PARENT_APPLICATION_NAME, service_name)

\* ---------------------------------------------------------------- filesystem
StripSep(path) ==
    IF Len(path) > 1 /\ EndsWith(path, OS_SEP) THEN SubSeq(path, 1, Len(path) - 1)
    ELSE path

isdir(D, path) == StripSep(path) \in D

isfile(F, path) == path \in DOMAIN F

\* ---------------------------------------------------------------- directories
RECURSIVE Flatten(_)
Flatten(seqs) ==
    IF Len(seqs) = 0 THEN <<>> ELSE Head(seqs) \o Flatten(Tail(seqs))

\* itertools.product(roots, versions): the first sequence varies slowest
Product(roots, versions) ==
    Flatten([r \in 1..Len(roots) |->
                [v \in 1..Len(versions) |-> <<roots[r], versions[v]>>]])

\* the `roots` list of directories(), built by its three `if` statements
ConfiguredRoots(sysroot, envroot, localdir) ==
    (IF sysroot # None THEN <<PathJoin(sysroot, child_dir)>> ELSE <<>>)
    \o (IF envroot # None THEN <<PathJoin(envroot, child_dir)>> ELSE <<>>)
    \o (IF localdir # None THEN <<PathJoin(localdir, child_dir)>> ELSE <<>>)

\* the filter with `or not filter_missing` lost: the flag no longer switches it off
KeepPathAlwaysFiltered(D, filter_missing, path) == isdir(D, path)

KeepPath(D, filter_missing, path) ==
    (filter_missing /\ isdir(D, path)) \/ ~filter_missing

directories(ver, sysroot, envroot, localdir, D, filter_missing) ==
    LET split == split_version(ver, ver)
    IN  IF split.status # "ok" THEN Raise(split.status)
        ELSE LET versions == <<<<>>>> \o split.value
                 roots == ConfiguredRoots(sysroot, envroot, localdir)
                 pairs == Product(roots, versions)
                 paths == [i \in 1..Len(pairs) |-> PathJoin(pairs[i][1], pairs[i][2])]
             IN  Ok(SelectSeq(paths, LAMBDA path : KeepPath(D, filter_missing, path)))

\* ---------------------------------------------------------------- files
\* `lambda _: True if not filter_missing else isfile`: with filter_missing the
\* lambda returns the function object isfile, which filter() takes as true
filterer(F, filter_missing, path) ==
    IF ~filter_missing THEN TRUE ELSE TRUE

filename == service_name \o FILE_EXTENSION

files(ver, sysroot, envroot, localdir, D, F, filter_missing) ==
    LET found == directories(ver, sysroot, envroot, localdir, D, filter_missing)
    IN  IF found.status # "ok" THEN found
        ELSE IF found.value = <<>> THEN Ok(<<>>)
        ELSE LET filepaths == [i \in 1..Len(found.value) |->
                                  PathJoin(found.value[i], filename)]
             IN  Ok(SelectSeq(filepaths, LAMBDA path : filterer(F, filter_missing, path)))

\* ---------------------------------------------------------------- YAML documents
\* a parsed value: an integer scalar, a mapping, or a list of [key, value] pairs
\* (m holds the mapping, or the pairs of the list)
EmptyDict == [k \in {} |-> 0]
IntV(n) == [t |-> "int", i |-> n, m |-> EmptyDict]
MapV(f) == [t |-> "map", i |-> 0, m |-> f]
ListV(f) == [t |-> "list", i |-> 0, m |-> f]

\* yaml.load of an empty stream is None; otherwise a top-level mapping
NullDoc == [kind |-> "null", map |-> EmptyDict]
MapDoc(f) == [kind |-> "map", map |-> f]

\* the assert dropped: any value passes as a mapping
IsDictUnchecked(value) == TRUE

\* isinstance(value, dict)
IsDict(value) == value.t = "map"

\* a recursive merge: mappings bound to the same key are merged, not replaced
DeepUpdate(d, other) ==
    [k \in DOMAIN d \cup DOMAIN other |->
        IF k \notin DOMAIN other THEN d[k]
        ELSE IF k \in DOMAIN d /\ d[k].t = "map" /\ other[k].t = "map"
        THEN MapV([j \in DOMAIN d[k].m \cup DOMAIN other[k].m |->
                     IF j \in DOMAIN other[k].m THEN other[k].m[j] ELSE d[k].m[j]])
        ELSE other[k]]

\* dict.update(other): every key of other is bound to other's value
Update(d, other) ==
    [k \in DOMAIN d \cup DOMAIN other |-> IF k \in DOMAIN other THEN other[k] ELSE d[k]]

\* data.get(key) in place of data.pop(key): the key stays in data
PoppedKeepsKey(data, key) == data

\* what is left of data after data.pop(key)
Popped(data, key) == [k \in DOMAIN data \ {key} |-> data[k]]

\* ---------------------------------------------------------------- load
\* a load that undoes its merges when it fails
OutcomeRolledBack(status, st, env, log) ==
    [status |-> status, store |-> IF status = "ok" THEN st ELSE EmptyDict,
     environ |-> env, readLog |-> log]

Outcome(status, st, env, log) ==
    [status |-> status, store |-> st, environ |-> env, readLog |-> log]

\* the None test lost: the env block is taken out whatever was passed
ExtractsEnvAlways(env, data) == "env" \in DOMAIN data.map

\* `environment is not None and "env" in data`
ExtractsEnv(env, data) == env.present /\ "env" \in DOMAIN data.map

\* the body of the `for filepath in self.files()` loop, over the files left
RECURSIVE LoadFiles(_, _, _, _, _)
LoadFiles(paths, F, st, env, log) ==
    IF paths = <<>> THEN Outcome("ok", st, env, log)
    ELSE LET filepath == Head(paths)
         IN  IF ~isfile(F, filepath) THEN Outcome("IOError", st, env, log)
             ELSE LET data == F[filepath]
                      opened == Append(log, filepath)
                  IN  IF data.kind = "null" THEN Outcome("TypeError", st, env, opened)
                      ELSE IF ExtractsEnv(env, data)
                      THEN LET config_environment == data.map["env"]
                               rest == Popped(data.map, "env")
                           IN  IF ~IsDict(config_environment)
                               THEN Outcome("AssertionError", st, env, opened)
                               ELSE LoadFiles(Tail(paths), F, Update(st, rest),
                                        [env EXCEPT !.map = Update(@, config_environment.m)],
                                        opened)
                      ELSE LoadFiles(Tail(paths), F, Update(st, data.map), env, opened)

load(ver, sysroot, envroot, localdir, D, F, st, env) ==
    LET found == files(ver, sysroot, envroot, localdir, D, F, TRUE)
    IN  IF found.status # "ok" THEN Outcome(found.status, st, env, <<>>)
        ELSE LoadFiles(found.value, F, st, env, <<>>)

\* ---------------------------------------------------------------- construction
\* Configuration.__init__: the roots as computed at construction, from the
\* platform, $PYFARM_CONFIG_ROOT and whether ./etc was a directory then
ConfigInit(platform, ver, envvar, etc_isdir) ==
    /\ version = ver
    /\ system_root = DEFAULT_CONFIG_ROOT(platform)
    /\ environment_root = envvar
    /\ local_dir = IF etc_isdir THEN LOCAL_DIRECTORY_NAME ELSE None
    /\ store = EmptyDict

NoCall == [name |-> "init", sep |-> <<>>, filter_missing |-> FALSE, environment |-> FALSE]
Call(name, sep, filter_missing, environment) ==
    [name |-> name, sep |-> sep, filter_missing |-> filter_missing,
     environment |-> environment]

\* ---------------------------------------------------------------- inputs
VersionText == <<"1", ".", "2", ".", "3", ".", "4", ".", "5">>

\* "" for n = 0, else the version "1.2...n"
CanonVersion(n) == IF n = 0 THEN <<>> ELSE SubSeq(VersionText, 1, 2 * n - 1)

PathVersions == {None} \cup {CanonVersion(n) : n \in 0..MaxComponents}

EnvRootPath == <<"/", "c", "f", "g">>
HomePath == <<"/", "h", "o", "m", "e">>

Range(seq) == {seq[i] : i \in 1..Len(seq)}

\* the version segments a directory tree of this version can hold
Tails(ver) ==
    IF ver = None \/ ver = <<>> THEN {<<>>}
    ELSE {<<>>} \cup Range(split_version(ver, SEP).value)

RootDirs == Range(ConfiguredRoots(system_root, environment_root, local_dir))

CandidateDirs == {StripSep(PathJoin(r, t)) : r \in RootDirs, t \in Tails(version)}

\* the trees load() is run on: every version directory under the system root,
\* and the version-free directory of the other roots
LoadCandidateDirs ==
    {d \in CandidateDirs :
        d \in RootDirs \/ StartsWith(d, PathJoin(system_root, child_dir))}

\* a version directory exists only inside an existing root directory
ParentClosed(D) ==
    \A r \in RootDirs, t \in Tails(version) : StripSep(PathJoin(r, t)) \in D => r \in D

FilesIn(D) == {PathJoin(d, filename) : d \in D}

Docs ==
    { NullDoc,
      MapDoc([x |-> IntV(1)]),
      MapDoc([x |-> IntV(2), y |-> IntV(3)]),
      MapDoc([x |-> MapV([p |-> IntV(1)])]),
      MapDoc([x |-> MapV([q |-> IntV(2)])]),
      MapDoc([env |-> MapV([a |-> IntV(1)])]),
      MapDoc([env |-> MapV([a |-> IntV(2), b |-> IntV(3)])]),
      MapDoc([env |-> ListV([a |-> IntV(9)])]) }

\* the mapping the caller of load() holds before the call
Environments == {EmptyDict, [a |-> IntV(0)]}

\* ---------------------------------------------------------------- initial states
Idle ==
    /\ op = NoCall
    /\ os_environ = EmptyDict
    /\ result = Ok(<<>>)
    /\ readLog = <<>>

InitSplit ==
    /\ \E platform \in Platforms, ver \in StringsUpTo(MaxVersionLen) \cup {None} :
           ConfigInit(platform, ver, None, FALSE)
    /\ user_root = None
    /\ dirs = {}
    /\ fcontent = [f \in {} |-> NullDoc]
    /\ environ = EmptyDict
    /\ Idle

InitPaths ==
    /\ \E platform \in {"linux", "unknown"}, ver \in PathVersions,
          envvar \in {None, EnvRootPath}, etc_isdir \in BOOLEAN :
           ConfigInit(platform, ver, envvar, etc_isdir)
    /\ user_root \in {None, HomePath}
    /\ \E D \in SUBSET CandidateDirs :
           /\ ParentClosed(D)
           /\ dirs = D
           /\ \E Fs \in SUBSET FilesIn(D) : fcontent = [f \in Fs |-> NullDoc]
    /\ environ = EmptyDict
    /\ Idle

InitLoad ==
    /\ \E ver \in PathVersions, envvar \in {None, EnvRootPath} :
           ConfigInit("linux", ver, envvar, FALSE)
    /\ user_root = None
    /\ \E D \in SUBSET LoadCandidateDirs :
           /\ ParentClosed(D)
           /\ dirs = D
           /\ \E Fs \in SUBSET FilesIn(D) :
                  /\ Cardinality(Fs) <= MaxFiles
                  /\ Cardinality(D) - Cardinality(Fs) <= MaxEmptyDirs
                  /\ fcontent \in [Fs -> Docs]
    /\ environ \in Environments
    /\ Idle

\* ---------------------------------------------------------------- operations
SplitVersion(sep) ==
    /\ op = NoCall
    /\ op' = Call("split_version", sep, FALSE, FALSE)
    /\ result' = split_version(version, sep)
    /\ UNCHANGED <<config, filesystem, store, environ, os_environ, readLog>>

Directories(filter_missing) ==
    /\ op = NoCall
    /\ op' = Call("directories", <<>>, filter_missing, FALSE)
    /\ result' = directories(version, system_root, environment_root, local_dir,
                              dirs, filter_missing)
    /\ UNCHANGED <<config, filesystem, store, environ, os_environ, readLog>>

Files(filter_missing) ==
    /\ op = NoCall
    /\ op' = Call("files", <<>>, filter_missing, FALSE)
    /\ result' = files(version, system_root, environment_root, local_dir,
                        dirs, fcontent, filter_missing)
    /\ UNCHANGED <<config, filesystem, store, environ, os_environ, readLog>>

\* load(environment): the caller passes its mapping, or None; `present` says
\* which, and the mapping is the caller's in both cases
Load(pass) ==
    /\ op = NoCall
    /\ LET env == [present |-> pass, map |-> environ]
           out == load(version, system_root, environment_root, local_dir,
                       dirs, fcontent, store, env)
       IN  /\ op' = Call("load", <<>>, TRUE, pass)
           /\ result' = IF out.status = "ok" THEN Ok(<<>>) ELSE Raise(out.status)
           /\ store' = out.store
           /\ environ' = out.environ.map
           /\ readLog' = out.readLog
    /\ UNCHANGED <<config, filesystem, os_environ>>

CallSplitVersion == \E sep \in {SEP, <<"2">>, <<"1", ".">>} : SplitVersion(sep)
CallDirectories == \E filter_missing \in BOOLEAN : Directories(filter_missing)
CallFiles == \E filter_missing \in BOOLEAN : Files(filter_missing)
CallLoad == \E pass \in BOOLEAN : Load(pass)

NextSplit == CallSplitVersion
NextPaths == CallDirectories \/ CallFiles
NextLoad == CallLoad

SpecSplit == InitSplit /\ [][NextSplit]_vars
SpecPaths == InitPaths /\ [][NextPaths]_vars
SpecLoad == InitLoad /\ [][NextLoad]_vars

\* ---------------------------------------------------------------- claims: paths
NumComponents(v) == 1 + Cardinality({i \in 1..Len(v) : v[i] = "."})

IsProperPrefix(a, b) == Len(a) < Len(b) /\ SubSeq(b, 1, Len(a)) = a

Distinct(seq) == \A i, j \in 1..Len(seq) : i # j => seq[i] # seq[j]

\* C4: split_version() of a version of n components returns n cumulative
\* prefixes, most specific first, the first being the version itself; of the
\* empty version it returns the empty sequence.
C4_MostSpecificFirst ==
    (op.name = "split_version" /\ op.sep = SEP /\ version # None) =>
        /\ result.status = "ok"
        /\ IF version = <<>> THEN result.value = <<>>
           ELSE /\ Len(result.value) = NumComponents(version)
                /\ result.value[1] = version
                /\ \A i \in 1..(Len(result.value) - 1) :
                       IsProperPrefix(result.value[i + 1], result.value[i])

\* C5: directories(filter_missing=False) has one path per (root, segment), the
\* segments being "" followed by the entries of split_version(): r*(n+1)
\* pairwise distinct entries, grouped by root, version-free first.
C5_OnePathPerCombination ==
    (op.name = "directories" /\ ~op.filter_missing /\ version # None /\ version # <<>>) =>
        LET roots == ConfiguredRoots(system_root, environment_root, local_dir)
            segments == <<<<>>>> \o split_version(version, SEP).value
            n == NumComponents(version)
        IN  /\ result.status = "ok"
            /\ Len(result.value) = Len(roots) * (n + 1)
            /\ Distinct(result.value)
            /\ \A g \in 1..Len(roots), j \in 1..(n + 1) :
                   result.value[(g - 1) * (n + 1) + j] = PathJoin(roots[g], segments[j])

RootOrder == <<system_root, user_root, environment_root, local_dir>>

RootRank(path) == CHOOSE k \in 1..4 : StartsWith(path, RootOrder[k])

\* C6: the roots of directories() come in the order system, user, environment,
\* local; each of the four that is set contributes its directories.
C6_FourRootsInOrder ==
    (op.name = "directories" /\ ~op.filter_missing /\ result.status = "ok") =>
        /\ \A k \in 1..4 :
               RootOrder[k] # None =>
                   \E i \in 1..Len(result.value) : StartsWith(result.value[i], RootOrder[k])
        /\ \A i, j \in 1..Len(result.value) :
               i < j => RootRank(result.value[i]) <= RootRank(result.value[j])

\* C7: files(filter_missing=True) returns only paths that exist as regular
\* files; an existing directory without the file contributes nothing.
C7_OnlyExistingFiles ==
    (op.name = "files" /\ op.filter_missing /\ result.status = "ok") =>
        \A i \in 1..Len(result.value) : isfile(fcontent, result.value[i])

\* C8: directories(filter_missing=True) is the unfiltered list restricted to
\* the directories that exist, in the same order; the unfiltered list is the
\* one computed on an empty filesystem, whatever directories exist.
C8_FilteredIsSublist ==
    LET unfiltered == directories(version, system_root, environment_root, local_dir,
                                  dirs, FALSE)
    IN  /\ (op.name = "directories" /\ op.filter_missing) =>
               result = IF unfiltered.status # "ok" THEN unfiltered
                        ELSE Ok(SelectSeq(unfiltered.value, LAMBDA path : isdir(dirs, path)))
        /\ (op.name = "directories" /\ ~op.filter_missing) =>
               result = directories(version, system_root, environment_root, local_dir,
                                    {}, FALSE)

C8_Witness ==
    /\ op.name = "directories" /\ op.filter_missing /\ result.status = "ok"
    /\ Len(result.value) >= 2
    /\ LET unfiltered == directories(version, system_root, environment_root, local_dir,
                                     dirs, FALSE).value
       IN  /\ Len(result.value) < Len(unfiltered)
           /\ ~isdir(dirs, unfiltered[1])

\* ---------------------------------------------------------------- claims: load
TopKeys == {"x", "y", "env"}
EnvKeys == {"a", "b"}

Max(S) == CHOOSE n \in S : \A o \in S : o <= n

\* the sequence load() iterates over
LoadedFiles ==
    files(version, system_root, environment_root, local_dir, dirs, fcontent, TRUE).value

HasDoc(path) == isfile(fcontent, path) /\ fcontent[path].kind = "map"

Defines(path, k) == HasDoc(path) /\ k \in DOMAIN fcontent[path].map

HasEnvBlock(path) == Defines(path, "env") /\ fcontent[path].map["env"].t = "map"

HasBadEnv(path) == Defines(path, "env") /\ fcontent[path].map["env"].t # "map"

\* C1: after load() every top-level key other than env that a file defines is
\* in the store, bound to the value of the last file defining it; the value is
\* that file's value as a whole (no merge of nested mappings).
C1_LastFileWins ==
    (op.name = "load" /\ result.status = "ok") =>
        \A k \in TopKeys \ {"env"} :
            LET definers == {i \in 1..Len(LoadedFiles) : Defines(LoadedFiles[i], k)}
            IN  definers # {} =>
                    /\ k \in DOMAIN store
                    /\ store[k] = fcontent[LoadedFiles[Max(definers)]].map[k]

C1_Witness ==
    /\ op.name = "load" /\ result.status = "ok"
    /\ store = [x |-> MapV([q |-> IntV(2)]), y |-> IntV(3)]
    /\ \E i, j \in 1..Len(readLog) :
           /\ i < j
           /\ fcontent[readLog[i]] = MapDoc([x |-> MapV([p |-> IntV(1)])])
           /\ fcontent[readLog[j]] = MapDoc([x |-> MapV([q |-> IntV(2)])])

\* C2: load(environment=E) merges the env blocks into E in file order, the
\* last write per key winning, and neither env nor a key found only inside
\* env blocks is a key of the store afterwards.
C2_EnvBlocksMerged ==
    (op.name = "load" /\ op.environment /\ result.status = "ok") =>
        /\ \A k \in EnvKeys :
               LET writers == {i \in 1..Len(LoadedFiles) :
                                  /\ HasEnvBlock(LoadedFiles[i])
                                  /\ k \in DOMAIN fcontent[LoadedFiles[i]].map["env"].m}
                   plain == {i \in 1..Len(LoadedFiles) : Defines(LoadedFiles[i], k)}
               IN  writers # {} =>
                       /\ k \in DOMAIN environ
                       /\ environ[k] = fcontent[LoadedFiles[Max(writers)]].map["env"].m[k]
                       /\ plain = {} => k \notin DOMAIN store
        /\ "env" \notin DOMAIN store

C2_Witness ==
    /\ op.name = "load" /\ op.environment /\ result.status = "ok"
    /\ environ = [a |-> IntV(2), b |-> IntV(3)]
    /\ store = EmptyDict
    /\ \E i, j \in 1..Len(readLog) :
           /\ i < j
           /\ fcontent[readLog[i]] = MapDoc([env |-> MapV([a |-> IntV(1)])])
           /\ fcontent[readLog[j]] = MapDoc([env |-> MapV([a |-> IntV(2), b |-> IntV(3)])])

\* the file `<root>/<segment>/<service_name>.yml`
FileUnder(root, segment) == PathJoin(PathJoin(root, segment), filename)

\* C3: when the version-free file and the file under every version prefix of
\* one root exist and define the same key, load() reads every one of them and
\* the store holds the value of the file under the longest prefix.
C3_EveryPrefixFileRead ==
    (op.name = "load" /\ result.status = "ok" /\ version # None /\ version # <<>>) =>
        \A r \in RootDirs, k \in TopKeys \ {"env"} :
            LET prefixFiles == {FileUnder(r, t) : t \in Tails(version)}
            IN  (\A f \in prefixFiles : Defines(f, k)) =>
                    /\ \A f \in prefixFiles : f \in Range(readLog)
                    /\ (\A f \in DOMAIN fcontent \ prefixFiles : ~Defines(f, k)) =>
                           store[k] = fcontent[FileUnder(r, version)].map[k]

\* C9: an empty file among the files of load() is a no-op: load() ends as it
\* would on the other files alone, with the same store and the same entries
\* merged into the environment mapping.
C9_EmptyFileIsNoOp ==
    (op.name = "load" /\ \E i \in 1..Len(LoadedFiles) :
                            /\ isfile(fcontent, LoadedFiles[i])
                            /\ fcontent[LoadedFiles[i]].kind = "null") =>
        LET others == SelectSeq(LoadedFiles,
                          LAMBDA f : ~(isfile(fcontent, f) /\ fcontent[f].kind = "null"))
            alone == LoadFiles(others, fcontent, EmptyDict,
                               [present |-> op.environment, map |-> EmptyDict], <<>>)
        IN  /\ result.status = alone.status
            /\ store = alone.store
            /\ \A k \in DOMAIN alone.environ.map :
                   k \in DOMAIN environ /\ environ[k] = alone.environ.map[k]

\* C10: when load(environment=E) reads a file whose env value is not a mapping
\* it fails with AssertionError at that file, and E holds what the earlier
\* files' blocks gave it and nothing of that file.
C10_BadEnvRaises ==
    [][(op'.name = "load" /\ op'.environment) =>
          \A i \in 1..Len(readLog') :
              HasBadEnv(readLog'[i]) =>
                  /\ result'.status = "AssertionError"
                  /\ i = Len(readLog')
                  /\ \A k \in EnvKeys :
                         LET writers == {j \in 1..(i - 1) :
                                            /\ HasEnvBlock(readLog'[j])
                                            /\ k \in DOMAIN fcontent[readLog'[j]].map["env"].m}
                         IN  IF writers # {}
                             THEN /\ k \in DOMAIN environ'
                                  /\ environ'[k] =
                                         fcontent[readLog'[Max(writers)]].map["env"].m[k]
                             ELSE IF k \in DOMAIN environ
                             THEN k \in DOMAIN environ' /\ environ'[k] = environ[k]
                             ELSE k \notin DOMAIN environ'
      ]_vars

C10_Witness ==
    /\ op.name = "load" /\ op.environment /\ result.status = "AssertionError"
    /\ Len(readLog) >= 2
    /\ HasBadEnv(readLog[Len(readLog)])
    /\ fcontent[readLog[1]] = MapDoc([env |-> MapV([a |-> IntV(1)])])
    /\ environ = [a |-> IntV(1)]

\* the index of the file load() failed at: the file it could not open, or the
\* last one it opened
FailedAt(status, log) == IF status = "IOError" THEN Len(log) + 1 ELSE Len(log)

C18_NoneKeepsEnvInStore ==
    [][(op'.name = "load" /\ ~op'.environment) =>
          /\ environ' = environ
          /\ result'.status = "ok" =>
                 LET definers == {j \in 1..Len(LoadedFiles) : Defines(LoadedFiles[j], "env")}
                 IN  definers # {} =>
                         /\ "env" \in DOMAIN store'
                         /\ store'["env"] = fcontent[LoadedFiles[Max(definers)]].map["env"]
      ]_vars

C18_Witness ==
    /\ op.name = "load" /\ ~op.environment /\ result.status = "ok"
    /\ "env" \in DOMAIN store
    /\ store["env"] = MapV([a |-> IntV(2), b |-> IntV(3)])
    /\ environ = [a |-> IntV(0)]
    /\ \E i, j \in 1..Len(readLog) :
           /\ i < j
           /\ fcontent[readLog[i]] = MapDoc([env |-> MapV([a |-> IntV(1)])])
           /\ fcontent[readLog[j]] = MapDoc([env |-> MapV([a |-> IntV(2), b |-> IntV(3)])])

\* ================================================================ read_env
\* ---------------------------------------------------------------- Python values
PyValue(t, s, n) == [t |-> t, s |-> s, n |-> n]
PyStr(s) == PyValue("str", s, 0)
PyInt(n) == PyValue("int", <<>>, n)
\* a float keeps the text of its literal
PyFloat(text) == PyValue("float", text, 0)
PyBool(b) == PyValue("bool", <<>>, IF b THEN 1 ELSE 0)
PyNone == PyValue("NoneType", <<>>, 0)
\* pyfarm.core.enums.NOTSET, and the `notset = object()` of read_env_bool
NOTSET == PyValue("NOTSET", <<>>, 0)
LocalNotSet == PyValue("notset", <<>>, 0)

Throw(e) == [status |-> e, value |-> NOTSET]

STRING_TYPES == {"str"}
NUMERIC_TYPES == {"int", "float"}

\* isinstance(value, types): bool is a subclass of int
IsInstance(value, types) ==
    value.t \in types \/ (value.t = "bool" /\ "int" \in types)

BOOLEAN_TRUE == {<<"1">>, <<"t">>, <<"y">>, <<"t", "r", "u", "e">>, <<"y", "e", "s">>}
BOOLEAN_FALSE == {<<"0">>, <<"f">>, <<"n">>, <<"f", "a", "l", "s", "e">>, <<"n", "o">>}

UpperLetters == <<"A", "B", "C", "D", "E", "F", "G", "H", "I", "J", "K", "L", "M", "N", "O", "P", "Q", "R", "S", "T", "U", "V", "W", "X", "Y", "Z">>
LowerLetters == <<"a", "b", "c", "d", "e", "f", "g", "h", "i", "j", "k", "l", "m", "n", "o", "p", "q", "r", "s", "t", "u", "v", "w", "x", "y", "z">>
Digits == <<"0", "1", "2", "3", "4", "5", "6", "7", "8", "9">>

\* the .lower() call lost
LowerUnchanged(str) == str

\* str.lower()
Lower(str) ==
    [i \in 1..Len(str) |->
        IF \E j \in 1..Len(UpperLetters) : UpperLetters[j] = str[i]
        THEN LowerLetters[CHOOSE j \in 1..Len(UpperLetters) : UpperLetters[j] = str[i]]
        ELSE str[i]]

IsDigits(str) == Len(str) > 0 /\ \A i \in 1..Len(str) : str[i] \in Range(Digits)

IsFloatText(str) ==
    \E i \in 2..(Len(str) - 1) :
        /\ str[i] = "."
        /\ IsDigits(SubSeq(str, 1, i - 1))
        /\ IsDigits(SubSeq(str, i + 1, Len(str)))

IsName(str) ==
    /\ Len(str) > 0
    /\ \A i \in 1..Len(str) : str[i] \in Range(UpperLetters) \cup Range(LowerLetters)

RECURSIVE ToInt(_)
ToInt(str) ==
    IF str = <<>> THEN 0
    ELSE ToInt(SubSeq(str, 1, Len(str) - 1)) * Len(Digits)
         + (CHOOSE d \in 1..Len(Digits) : Digits[d] = str[Len(str)]) - 1

\* ast.literal_eval on the literals the model sets: the constants True, False
\* and None, integers, floats; any other name is a ValueError, anything else a
\* SyntaxError
literal_eval(str) ==
    IF str = <<"T", "r", "u", "e">> THEN Ok(PyBool(TRUE))
    ELSE IF str = <<"F", "a", "l", "s", "e">> THEN Ok(PyBool(FALSE))
    ELSE IF str = <<"N", "o", "n", "e">> THEN Ok(PyNone)
    ELSE IF IsDigits(str) THEN Ok(PyInt(ToInt(str)))
    ELSE IF IsFloatText(str) THEN Ok(PyFloat(str))
    ELSE IF IsName(str) THEN Throw("ValueError")
    ELSE Throw("SyntaxError")

\* the except clause with the `if raise_eval_exception: raise` lost
EvalFailedReturnsDefault(raise_eval_exception, error, default) == Ok(default)

\* the `except (ValueError, SyntaxError)` clause of read_env
EvalFailed(raise_eval_exception, error, default) ==
    IF raise_eval_exception THEN Throw(error) ELSE Ok(default)

\* a default that, when given, is returned before the environment is looked at
ReadEnvDefaultFirst(E, envvar, default, eval_literal, raise_eval_exception) ==
    IF default # NOTSET THEN Ok(default)
    ELSE IF envvar \notin DOMAIN E THEN Throw("EnvironmentError")
    ELSE Ok(PyStr(E[envvar]))

read_env(E, envvar, default, eval_literal, raise_eval_exception) ==
    IF envvar \notin DOMAIN E
    THEN IF default = NOTSET THEN Throw("EnvironmentError") ELSE Ok(default)
    ELSE LET value == E[envvar]
         IN  IF ~eval_literal THEN Ok(PyStr(value))
             ELSE LET parsed == literal_eval(value)
                  IN  IF parsed.status = "ok" THEN parsed
                      ELSE EvalFailed(raise_eval_exception, parsed.status, default)

\* read_env_bool(envvar) or read_env_bool(envvar, default); an omitted default
\* is default = LocalNotSet
read_env_bool(E, envvar, default) ==
    LET found == read_env(E, envvar, default, FALSE, TRUE)
    IN  IF found.status # "ok" THEN found
        ELSE IF found.value = LocalNotSet THEN Throw("AssertionError")
        ELSE IF IsInstance(found.value, STRING_TYPES)
        THEN LET value == Lower(found.value.s)
             IN  IF value \in BOOLEAN_TRUE THEN Ok(PyBool(TRUE))
                 ELSE IF value \in BOOLEAN_FALSE THEN Ok(PyBool(FALSE))
                 ELSE Throw("TypeError")
        ELSE IF ~IsInstance(found.value, {"bool"}) THEN Throw("TypeError")
        ELSE found

\* read_env_number(envvar) or read_env_number(envvar, default); an omitted
\* default is default = NOTSET
read_env_number(E, envvar, default) ==
    LET found == read_env(E, envvar, default, TRUE, TRUE)
    IN  IF found.status = "ValueError" THEN Throw("ValueError")
        ELSE IF found.status # "ok" THEN found
        ELSE IF found.value = NOTSET THEN Throw("AssertionError")
        ELSE IF ~IsInstance(found.value, NUMERIC_TYPES) THEN Throw("TypeError")
        ELSE found

\* read_env_strict_number(envvar, number_type=...); an omitted number_type is
\* number_type = "None"
read_env_strict_number(E, envvar, number_type) ==
    IF number_type = "None" THEN Throw("AssertionError")
    ELSE LET found == read_env_number(E, envvar, NOTSET)
         IN  IF found.status # "ok" THEN found
             ELSE IF ~IsInstance(found.value, {number_type}) THEN Throw("TypeError")
             ELSE found

\* ---------------------------------------------------------------- inputs
EnvNames == {"A", "B"}

RawValues ==
    BOOLEAN_TRUE \cup BOOLEAN_FALSE
    \cup {<<"T", "r", "u", "e">>, <<"Y", "E", "S">>, <<"N", "o">>, <<"4", "2">>, <<"3", ".", "5">>, <<"N", "o", "n", "e">>, <<"f", "o", "o">>, <<>>}

Defaults == {NOTSET, PyInt(42), PyBool(TRUE), PyBool(FALSE), PyStr(<<"n", "o">>)}

\* ---------------------------------------------------------------- operations
EnvCall(name, envvar, default, eval_literal, raise_eval_exception, number_type) ==
    [name |-> name, envvar |-> envvar, default |-> default,
     eval_literal |-> eval_literal, raise_eval_exception |-> raise_eval_exception,
     number_type |-> number_type]

NoEnvCall == EnvCall("init", "A", NOTSET, FALSE, TRUE, "None")

InitEnv ==
    /\ ConfigInit("linux", None, None, FALSE)
    /\ user_root = None
    /\ dirs = {}
    /\ fcontent = [f \in {} |-> NullDoc]
    /\ environ = EmptyDict
    /\ os_environ = EmptyDict
    /\ op = NoEnvCall
    /\ result = Ok(NOTSET)
    /\ readLog = <<>>

EnvFrame == UNCHANGED <<config, filesystem, store, environ, readLog>>

\* os.environ[name] = raw
SetEnv(name, raw) ==
    /\ os_environ' = [n \in DOMAIN os_environ \cup {name} |->
                         IF n = name THEN raw ELSE os_environ[n]]
    /\ op' = EnvCall("setenv", name, NOTSET, FALSE, TRUE, "None")
    /\ result' = Ok(NOTSET)
    /\ EnvFrame

\* del os.environ[name]
UnsetEnv(name) ==
    /\ name \in DOMAIN os_environ
    /\ os_environ' = [n \in DOMAIN os_environ \ {name} |-> os_environ[n]]
    /\ op' = EnvCall("unsetenv", name, NOTSET, FALSE, TRUE, "None")
    /\ result' = Ok(NOTSET)
    /\ EnvFrame

ReadEnv(envvar, default, eval_literal, raise_eval_exception) ==
    /\ op' = EnvCall("read_env", envvar, default, eval_literal, raise_eval_exception, "None")
    /\ result' = read_env(os_environ, envvar, default, eval_literal, raise_eval_exception)
    /\ UNCHANGED os_environ
    /\ EnvFrame

ReadEnvBool(envvar, default) ==
    /\ op' = EnvCall("read_env_bool", envvar, default, FALSE, TRUE, "None")
    /\ result' = read_env_bool(os_environ, envvar, default)
    /\ UNCHANGED os_environ
    /\ EnvFrame

ReadEnvNumber(envvar, default) ==
    /\ op' = EnvCall("read_env_number", envvar, default, TRUE, TRUE, "None")
    /\ result' = read_env_number(os_environ, envvar, default)
    /\ UNCHANGED os_environ
    /\ EnvFrame

ReadEnvStrictNumber(envvar, number_type) ==
    /\ op' = EnvCall("read_env_strict_number", envvar, NOTSET, TRUE, TRUE, number_type)
    /\ result' = read_env_strict_number(os_environ, envvar, number_type)
    /\ UNCHANGED os_environ
    /\ EnvFrame

CallSetEnv == \E name \in EnvNames, raw \in RawValues : SetEnv(name, raw)
CallUnsetEnv == \E name \in EnvNames : UnsetEnv(name)
CallReadEnv ==
    \E envvar \in EnvNames, default \in Defaults, eval_literal \in BOOLEAN,
       raise_eval_exception \in BOOLEAN :
        ReadEnv(envvar, default, eval_literal, raise_eval_exception)
CallReadEnvBool ==
    \E envvar \in EnvNames, default \in (Defaults \ {NOTSET}) \cup {LocalNotSet} :
        ReadEnvBool(envvar, default)
CallReadEnvNumber ==
    \E envvar \in EnvNames, default \in {NOTSET, PyInt(42), PyNone} :
        ReadEnvNumber(envvar, default)
CallReadEnvStrictNumber ==
    \E envvar \in EnvNames, number_type \in {"None", "int", "float"} :
        ReadEnvStrictNumber(envvar, number_type)

NextEnv ==
    \/ CallSetEnv
    \/ CallUnsetEnv
    \/ CallReadEnv
    \/ CallReadEnvBool
    \/ CallReadEnvNumber
    \/ CallReadEnvStrictNumber

SpecEnv == InitEnv /\ [][NextEnv]_vars

\* ================================================================ read_env claims
IsSet(envvar) == envvar \in DOMAIN os_environ

\* C11: read_env reflects the environment as it is at the time of the call,
\* whatever was set and unset before: the current raw string of a set variable,
\* else the default when one was given, else EnvironmentError.
C11_ReadsCurrentEnvironment ==
    op.name = "read_env" =>
        /\ (IsSet(op.envvar) /\ ~op.eval_literal) =>
               result = Ok(PyStr(os_environ[op.envvar]))
        /\ (~IsSet(op.envvar) /\ op.default # NOTSET) => result = Ok(op.default)
        /\ (~IsSet(op.envvar) /\ op.default = NOTSET) =>
               result.status = "EnvironmentError"

\* a variable read at its current value with a default supplied, the other
\* variable set as well
C11_Witness ==
    /\ op.name = "read_env"
    /\ ~op.eval_literal
    /\ op.envvar = "A"
    /\ op.default = PyInt(42)
    /\ DOMAIN os_environ = EnvNames
    /\ os_environ["A"] = <<"y", "e", "s">>
    /\ result = Ok(PyStr(<<"y", "e", "s">>))

\* C12: with eval_literal set and the variable set, a parseable literal is
\* returned as its typed value whatever raise_eval_exception is; a value that
\* does not parse fails with the parse error (ValueError or SyntaxError) when
\* raise_eval_exception is true and yields the caller's default when it is
\* false.
C12_ParseFailureRaisesOrDefaults ==
    (op.name = "read_env" /\ op.eval_literal /\ IsSet(op.envvar)) =>
        LET parsed == literal_eval(os_environ[op.envvar])
        IN  IF parsed.status = "ok" THEN result = parsed
            ELSE IF op.raise_eval_exception
            THEN result.status \in {"ValueError", "SyntaxError"}
            ELSE result = Ok(op.default)

\* the variable holds "f", which is no literal, and the call asked for the
\* default instead of the error
C12_Witness ==
    /\ op.name = "read_env"
    /\ op.eval_literal
    /\ ~op.raise_eval_exception
    /\ IsSet(op.envvar)
    /\ os_environ[op.envvar] = <<"f">>
    /\ op.default = PyInt(42)
    /\ result = Ok(PyInt(42))

C13_TrueWords == {<<"1">>, <<"t">>, <<"y">>, <<"t", "r", "u", "e">>, <<"y", "e", "s">>}
C13_FalseWords == {<<"0">>, <<"f">>, <<"n">>, <<"f", "a", "l", "s", "e">>, <<"n", "o">>}

\* raw is one of the words up to the case of its letters
C13_IsWordOf(raw, words) ==
    \E w \in words :
        /\ Len(w) = Len(raw)
        /\ \A i \in 1..Len(w) :
               \/ raw[i] = w[i]
               \/ \E j \in 1..Len(LowerLetters) :
                      LowerLetters[j] = w[i] /\ UpperLetters[j] = raw[i]

\* C13: for a set variable read_env_bool returns True when the lower-cased
\* value is one of 1, t, y, true, yes, False when it is one of 0, f, n, false,
\* no, and raises TypeError for every other string, whatever the default; for
\* an unset variable a boolean default is returned unchanged and a default that
\* is neither a string nor a boolean raises TypeError.
C13_BooleanWords ==
    op.name = "read_env_bool" =>
        IF IsSet(op.envvar)
        THEN LET raw == os_environ[op.envvar]
             IN  IF C13_IsWordOf(raw, C13_TrueWords) THEN result = Ok(PyBool(TRUE))
                 ELSE IF C13_IsWordOf(raw, C13_FalseWords) THEN result = Ok(PyBool(FALSE))
                 ELSE result.status = "TypeError"
        ELSE /\ op.default.t = "bool" => result = Ok(op.default)
             /\ op.default.t \notin {"bool", "str", "notset"} =>
                    result.status = "TypeError"

\* an upper-case YES read as True against a default of False
C13_Witness ==
    /\ op.name = "read_env_bool"
    /\ IsSet(op.envvar)
    /\ os_environ[op.envvar] = <<"Y", "E", "S">>
    /\ op.default = PyBool(FALSE)
    /\ result = Ok(PyBool(TRUE))

\* C14: every read_env_bool call that omits the default fails with
\* AssertionError, whether the variable is unset or set.
C14_OmittedDefaultAlwaysFails ==
    (op.name = "read_env_bool" /\ op.default = LocalNotSet) =>
        result.status = "AssertionError"

\* the part of C14 the code keeps: the unset variable
C14_OmittedDefaultFailsWhenUnset ==
    (op.name = "read_env_bool" /\ op.default = LocalNotSet /\ ~IsSet(op.envvar)) =>
        result.status = "AssertionError"

\* C15: read_env_strict_number without number_type fails with AssertionError;
\* with number_type T and a variable whose value parses, it returns the literal
\* only when its type is exactly T and raises TypeError for every other
\* literal, a boolean included.
C15_ExactTypeOnly ==
    op.name = "read_env_strict_number" =>
        IF op.number_type = "None" THEN result.status = "AssertionError"
        ELSE IsSet(op.envvar) =>
                 LET parsed == literal_eval(os_environ[op.envvar])
                 IN  parsed.status = "ok" =>
                         IF parsed.value.t = op.number_type THEN result = parsed
                         ELSE result.status = "TypeError"

\* the part of C15 the code keeps: everything but a boolean read as an int
C15_ExactTypeButForBool ==
    op.name = "read_env_strict_number" =>
        IF op.number_type = "None" THEN result.status = "AssertionError"
        ELSE IsSet(op.envvar) =>
                 LET parsed == literal_eval(os_environ[op.envvar])
                 IN  (parsed.status = "ok"
                      /\ ~(parsed.value.t = "bool" /\ op.number_type = "int")) =>
                         IF parsed.value.t = op.number_type THEN result = parsed
                         ELSE result.status = "TypeError"

\* ================================================================ the store as a mapping
\* Configuration subclasses dict and overrides neither __setitem__,
\* __getitem__ nor get: the three are dict's own.
StoreKeys == {"A", "k"}

StoreValues ==
    {PyStr(<<"$", "t", "e", "m", "p", "/", "b", "a", "r">>), PyStr(<<"$", "A">>), PyStr(<<"$", "B", "/", "b", "a", "r">>), PyStr(<<"$", "u">>),
     PyStr(<<"b", "a", "r">>), PyInt(42)}

ProcessEnvironments ==
    {EmptyDict, [n \in {"B"} |-> <<"e", "n", "v">>], [n \in {"A", "B"} |-> <<"e", "n", "v">>]}

StoreCall(name, key, value) == [name |-> name, key |-> key, value |-> value]

InitStore ==
    /\ ConfigInit("linux", None, None, FALSE)
    /\ user_root = None
    /\ dirs = {}
    /\ fcontent = [f \in {} |-> NullDoc]
    /\ environ = EmptyDict
    /\ os_environ \in ProcessEnvironments
    /\ op = StoreCall("init", "k", NOTSET)
    /\ result = Ok(NOTSET)
    /\ readLog = <<>>

StoreFrame == UNCHANGED <<config, filesystem, environ, os_environ, readLog>>

\* config[key] = value
SetItem(key, value) ==
    /\ store' = [k \in DOMAIN store \cup {key} |-> IF k = key THEN value ELSE store[k]]
    /\ op' = StoreCall("setitem", key, value)
    /\ result' = Ok(PyNone)
    /\ StoreFrame

\* config[key]
GetItem(key) ==
    /\ op' = StoreCall("getitem", key, NOTSET)
    /\ result' = IF key \in DOMAIN store THEN Ok(store[key]) ELSE Throw("KeyError")
    /\ UNCHANGED store
    /\ StoreFrame

\* config.get(key)
Get(key) ==
    /\ op' = StoreCall("get", key, NOTSET)
    /\ result' = IF key \in DOMAIN store THEN Ok(store[key]) ELSE Ok(PyNone)
    /\ UNCHANGED store
    /\ StoreFrame

CallSetItem == \E key \in StoreKeys, value \in StoreValues : SetItem(key, value)
CallGetItem == \E key \in StoreKeys : GetItem(key)
CallGet == \E key \in StoreKeys : Get(key)

NextStore ==
    \/ CallSetItem
    \/ CallGetItem
    \/ CallGet

SpecStore == InitStore /\ [][NextStore]_vars

\* ---------------------------------------------------------------- expansion, as the claim states it
C16_TempDir == PathJoin(<<"/", "t", "m", "p">>, service_name)

C16_IsTokenChar(c) ==
    c \in Range(UpperLetters) \cup Range(LowerLetters) \cup Range(Digits) \cup {"_"}

\* the length of the run of name characters that starts at position i
RECURSIVE C16_RunLen(_, _)
C16_RunLen(str, i) ==
    IF i > Len(str) \/ ~C16_IsTokenChar(str[i]) THEN 0
    ELSE 1 + C16_RunLen(str, i + 1)

\* the store's own keys first, the process environment second, else verbatim
C16_Resolve(name, token) ==
    IF name = <<"t", "e", "m", "p">> THEN C16_TempDir
    ELSE IF Len(name) = 1 /\ name[1] \in DOMAIN store /\ store[name[1]].t = "str"
    THEN store[name[1]].s
    ELSE IF Len(name) = 1 /\ name[1] \in DOMAIN os_environ
    THEN os_environ[name[1]]
    ELSE token

RECURSIVE C16_Expand(_, _)
C16_Expand(str, i) ==
    IF i > Len(str) THEN <<>>
    ELSE LET n == C16_RunLen(str, i + 1)
         IN  IF str[i] = "$" /\ n > 0
             THEN C16_Resolve(SubSeq(str, i + 1, i + n), SubSeq(str, i, i + n))
                  \o C16_Expand(str, i + n + 1)
             ELSE <<str[i]>> \o C16_Expand(str, i + 1)

C16_HasToken(str) ==
    \E i \in 1..Len(str) : str[i] = "$" /\ C16_RunLen(str, i + 1) > 0

\* no token of str names a store key whose own value is not plain text: the
\* cases where one pass and repeated passes of expansion agree
C16_Plain(str) ==
    \A i \in 1..Len(str) :
        (str[i] = "$" /\ C16_RunLen(str, i + 1) = 1 /\ str[i + 1] \in DOMAIN store) =>
            /\ store[str[i + 1]].t = "str"
            /\ ~C16_HasToken(store[str[i + 1]].s)

\* C16: a read of a stored string, by get or by item access, returns its
\* expansion: $temp becomes the temp directory, $name is resolved against the
\* store's own keys first and the process environment second, a token that
\* resolves in neither stays verbatim, and a string without tokens is returned
\* unchanged.
C16_ReadsExpand ==
    (/\ op.name \in {"get", "getitem"}
     /\ op.key \in DOMAIN store
     /\ store[op.key].t = "str"
     /\ C16_Plain(store[op.key].s)) =>
        result = Ok(PyStr(C16_Expand(store[op.key].s, 1)))

\* the part of C16 the code keeps: the write path stores the raw text, and a
\* read returns a token-free string, and an unresolvable token, as stored
C16_RawKeptAndPlainUnchanged ==
    /\ op.name = "setitem" => store[op.key] = op.value
    /\ (/\ op.name \in {"get", "getitem"}
        /\ op.key \in DOMAIN store
        /\ store[op.key].t = "str"
        /\ store[op.key].s \in {<<"b", "a", "r">>, <<"$", "u">>}) =>
           result = Ok(PyStr(C16_Expand(store[op.key].s, 1)))

====
